---- MODULE Spec2Model ----
(***************************************************************************)
(* kamailio_exporter: the Collector (NewCollector, Collect, scrape,        *)
(* scrapeMethod, the dispatcher / DMQ walkers, label canonicalisation)     *)
(* as a state machine.  The BINRPC transport and the Prometheus sink are   *)
(* the environment: a dial succeeds or fails, a call returns a transport   *)
(* error or any sequence of typed records, the sink receives what is sent  *)
(* on the channel.                                                         *)
(***************************************************************************)
EXTENDS Integers, Sequences, FiniteSets, TLC

(***************************************************************************)
(* Bounds of the model.                                                    *)
(***************************************************************************)
\* entries of the comma-separated method list given to NewCollector
MaxEntries == 2
\* Collect calls made by the sink over one run
MaxCycles == 2

(***************************************************************************)
(* binrpc records.  A record is tagged int, string or struct; a struct     *)
(* holds an ordered list of (Key, Value) items whose keys may repeat.      *)
(* Every record carries all fields so that records of different types      *)
(* stay comparable.                                                        *)
(***************************************************************************)
TypeInt == "int"
TypeString == "string"
TypeStruct == "struct"

IntRec(n) == [Type |-> TypeInt, Int |-> n, Str |-> "", Items |-> <<>>]
StrRec(s) == [Type |-> TypeString, Int |-> 0, Str |-> s, Items |-> <<>>]
StructRec(items) == [Type |-> TypeStruct, Int |-> 0, Str |-> "", Items |-> items]
Item(k, v) == [Key |-> k, Value |-> v]

\* the error value of a call that succeeded
Nil == "nil"

\* Record.StructItems(): the items of a struct, an error for anything else
StructItems(v) ==
  IF v.Type = TypeStruct THEN [err |-> Nil, items |-> v.Items]
  ELSE [err |-> "type error: expected type struct, got " \o v.Type, items |-> <<>>]

\* Record.Int(): the integer of an int record, (0, error) for anything else
IntOf(v) ==
  IF v.Type = TypeInt THEN [err |-> Nil, val |-> v.Int]
  ELSE [err |-> "type error: expected type int, got " \o v.Type, val |-> 0]

\* Record.String(): the text of a string record, ("", error) for anything else
StringOf(v) ==
  IF v.Type = TypeString THEN [err |-> Nil, val |-> v.Str]
  ELSE [err |-> "type error: expected type string, got " \o v.Type, val |-> ""]

(***************************************************************************)
(* Strings, character by character.                                        *)
(***************************************************************************)
CharAt(s, k) == SubSeq(s, k, k)

\* the characters of the names used here, in byte order
Alphabet == "+,-.0123456789:<>@ABCDEFGHIJKLMNOPQRSTUVWXYZ_abcdefghijklmnopqrstuvwxyz"

CharRank(c) ==
  IF \E k \in 1..Len(Alphabet) : CharAt(Alphabet, k) = c
  THEN CHOOSE k \in 1..Len(Alphabet) : CharAt(Alphabet, k) = c
  ELSE Len(Alphabet) + 1

\* a < b in the byte order sort.Strings uses
RECURSIVE StrLess(_, _)
StrLess(a, b) ==
  IF b = "" THEN FALSE
  ELSE IF a = "" THEN TRUE
  ELSE IF CharAt(a, 1) = CharAt(b, 1)
       THEN StrLess(SubSeq(a, 2, Len(a)), SubSeq(b, 2, Len(b)))
       ELSE CharRank(CharAt(a, 1)) < CharRank(CharAt(b, 1))

\* strings.Replace(s, old, new, -1) for a one-character old
RECURSIVE ReplaceAll(_, _, _)
ReplaceAll(s, old, new) ==
  IF s = "" THEN ""
  ELSE (IF CharAt(s, 1) = old THEN new ELSE CharAt(s, 1))
       \o ReplaceAll(SubSeq(s, 2, Len(s)), old, new)

\* strings.Split(s, sep) for a one-character sep: always at least one entry
RECURSIVE SplitFrom(_, _, _)
SplitFrom(s, sep, cur) ==
  IF s = "" THEN <<cur>>
  ELSE IF CharAt(s, 1) = sep
       THEN <<cur>> \o SplitFrom(SubSeq(s, 2, Len(s)), sep, "")
       ELSE SplitFrom(SubSeq(s, 2, Len(s)), sep, cur \o CharAt(s, 1))

Split(s, sep) == SplitFrom(s, sep, "")

\* strings.Join(list, sep)
RECURSIVE Join(_, _)
Join(list, sep) ==
  IF list = <<>> THEN ""
  ELSE IF Len(list) = 1 THEN list[1]
  ELSE list[1] \o sep \o Join(Tail(list), sep)

\* the lists of a list, one after the other
RECURSIVE Concat(_)
Concat(lists) == IF lists = << >> THEN << >> ELSE Head(lists) \o Concat(Tail(lists))

\* codeRegex = "^[0-9x]{3}$"
CodeChars == {"0", "1", "2", "3", "4", "5", "6", "7", "8", "9", "x"}

codeRegex(key) ==
  /\ Len(key) = 3
  /\ \A k \in 1..3 : CharAt(key, k) \in CodeChars

(***************************************************************************)
(* The metric catalog.                                                     *)
(***************************************************************************)
namespace == "kamailio"

GaugeValue == "gauge"
CounterValue == "counter"

NewMetricGauge(name, method) == [Kind |-> GaugeValue, Name |-> name, Method |-> method]
NewMetricCounter(name, method) == [Kind |-> CounterValue, Name |-> name, Method |-> method]

availableMethods ==
  << "tm.stats", "sl.stats", "core.shmmem", "core.uptime", "core.tcp_info",
     "dispatcher.list", "tls.info", "dlg.stats_active", "dmq.list_nodes" >>

\* the set of keys of metricsList
CatalogMethods ==
  { "tm.stats", "sl.stats", "core.shmmem", "core.uptime", "core.tcp_info",
    "dispatcher.list", "tls.info", "dlg.stats_active", "dmq.list_nodes" }

metricsList(method) ==
  CASE method = "tm.stats" ->
         << NewMetricGauge("current", method), NewMetricGauge("waiting", method),
            NewMetricCounter("total", method), NewMetricCounter("total_local", method),
            NewMetricCounter("rpl_received", method), NewMetricCounter("rpl_generated", method),
            NewMetricCounter("rpl_sent", method), NewMetricCounter("created", method),
            NewMetricCounter("freed", method), NewMetricCounter("delayed_free", method),
            NewMetricCounter("codes", method) >>
    [] method = "sl.stats" -> << NewMetricCounter("codes", method) >>
    [] method = "core.shmmem" ->
         << NewMetricGauge("total", method), NewMetricGauge("free", method),
            NewMetricGauge("used", method), NewMetricGauge("real_used", method),
            NewMetricGauge("max_used", method), NewMetricGauge("fragments", method) >>
    [] method = "core.uptime" -> << NewMetricCounter("uptime", method) >>
    [] method = "core.tcp_info" ->
         << NewMetricGauge("readers", method), NewMetricGauge("max_connections", method),
            NewMetricGauge("max_tls_connections", method),
            NewMetricGauge("opened_connections", method),
            NewMetricGauge("opened_tls_connections", method),
            NewMetricGauge("write_queued_bytes", method) >>
    [] method = "dispatcher.list" -> << NewMetricGauge("target", method) >>
    [] method = "tls.info" ->
         << NewMetricGauge("opened_connections", method),
            NewMetricGauge("max_connections", method) >>
    [] method = "dlg.stats_active" ->
         << NewMetricGauge("starting", method), NewMetricGauge("connecting", method),
            NewMetricGauge("answering", method), NewMetricGauge("ongoing", method),
            NewMetricGauge("all", method) >>
    [] method = "dmq.list_nodes" ->
         << NewMetricGauge("status", method), NewMetricGauge("local", method) >>
    [] OTHER -> << >>

\* Metric.ExportedName
ExportedName(m) ==
  namespace \o "_" \o ReplaceAll(m.Method, ".", "_") \o "_"
    \o (IF m.Kind = CounterValue THEN m.Name \o "_total" ELSE m.Name)

(***************************************************************************)
(* MetricValue: a value and its labels, a mapping kept as a set of         *)
(* <<key, value>> pairs with unique keys.                                  *)
(***************************************************************************)
MetricValue(v, labels) == [Value |-> v, Labels |-> labels]

NoLabels == {}

LabelOf(labels, key) == (CHOOSE kv \in labels : kv[1] = key)[2]

\* sort.Strings over a set of keys
RECURSIVE SortStrings(_)
SortStrings(S) ==
  IF S = {} THEN << >>
  ELSE LET least == CHOOSE a \in S : \A b \in S : a = b \/ StrLess(a, b)
       IN  <<least>> \o SortStrings(S \ {least})

\* a list back to front
Backwards(list) == [k \in 1..Len(list) |-> list[Len(list) + 1 - k]]

\* LabelKeys, had the keys been left in another order than the sorted one
LabelKeysUnsorted(mv) ==
  IF Cardinality(mv.Labels) = 0 THEN << >>
  ELSE Backwards(SortStrings({kv[1] : kv \in mv.Labels}))

\* MetricValue.LabelKeys
LabelKeys(mv) ==
  IF Cardinality(mv.Labels) = 0 THEN << >>
  ELSE SortStrings({kv[1] : kv \in mv.Labels})

\* MetricValue.LabelValues
ValuesInOrder(labels, keys) == [k \in 1..Len(keys) |-> LabelOf(labels, keys[k])]

LabelValues(mv) ==
  IF Cardinality(mv.Labels) = 0 THEN << >>
  ELSE ValuesInOrder(mv.Labels, LabelKeys(mv))

(***************************************************************************)
(* The result of scrapeMethod: map[string][]MetricValue, kept as a list of *)
(* (Name, Values) entries with unique names.                               *)
(***************************************************************************)
EmptyMetrics == << >>

Found(metrics, name) == \E k \in 1..Len(metrics) : metrics[k].Name = name

ValuesOf(metrics, name) ==
  IF Found(metrics, name)
  THEN metrics[CHOOSE k \in 1..Len(metrics) : metrics[k].Name = name].Values
  ELSE << >>

Put(metrics, name, values) ==
  IF Found(metrics, name)
  THEN [k \in 1..Len(metrics) |->
          IF metrics[k].Name = name THEN [Name |-> name, Values |-> values]
          ELSE metrics[k]]
  ELSE Append(metrics, [Name |-> name, Values |-> values])

(***************************************************************************)
(* parseDispatcherTargets: RECORDS -> SET -> (ID, TARGETS -> DEST ->       *)
(* (URI, FLAGS)).                                                          *)
(***************************************************************************)
MissingSetID == "missing set ID while parsing dispatcher.list"

\* the loop over the properties of one DEST: a value that is no text leaves ""
RECURSIVE ParseProps(_, _)
ParseProps(props, target) ==
  IF props = << >> THEN target
  ELSE LET prop == Head(props)
       IN  ParseProps(Tail(props),
             IF prop.Key = "URI" THEN [target EXCEPT !.URI = StringOf(prop.Value).val]
             ELSE IF prop.Key = "FLAGS" THEN [target EXCEPT !.Flags = StringOf(prop.Value).val]
             ELSE target)

\* ParseDestinations, had every entry of a TARGETS group been read as a DEST
RECURSIVE ParseDestinationsAnyKey(_, _)
ParseDestinationsAnyKey(destinations, targets) ==
  IF destinations = << >> THEN [err |-> Nil, targets |-> targets]
  ELSE LET props == StructItems(Head(destinations).Value)
       IN  IF props.err # Nil THEN [err |-> props.err, targets |-> << >>]
           ELSE ParseDestinationsAnyKey(Tail(destinations),
                  Append(targets,
                         ParseProps(props.items, [URI |-> "", Flags |-> "", SetID |-> 0])))

\* the loop over the entries of one TARGETS group
RECURSIVE ParseDestinations(_, _)
ParseDestinations(destinations, targets) ==
  IF destinations = << >> THEN [err |-> Nil, targets |-> targets]
  ELSE LET destination == Head(destinations)
           props == StructItems(destination.Value)
       IN  IF destination.Key # "DEST" THEN ParseDestinations(Tail(destinations), targets)
           ELSE IF props.err # Nil THEN [err |-> props.err, targets |-> << >>]
           ELSE ParseDestinations(Tail(destinations),
                  Append(targets,
                         ParseProps(props.items, [URI |-> "", Flags |-> "", SetID |-> 0])))

\* the loop over the fields of one SET
RECURSIVE ParseSetItems(_, _, _)

\* after the TARGETS group of a SET was walked (parsed), the fields left
AfterTargets(rest, setID, parsed) ==
  IF parsed.err # Nil THEN [err |-> parsed.err, setID |-> 0, targets |-> << >>]
  ELSE ParseSetItems(rest, setID, parsed.targets)

ParseSetItems(setItems, setID, targets) ==
  IF setItems = << >> THEN [err |-> Nil, setID |-> setID, targets |-> targets]
  ELSE LET set == Head(setItems)
       IN  IF set.Key = "ID"
           THEN LET id == IntOf(set.Value)
                IN  IF id.err # Nil THEN [err |-> id.err, setID |-> 0, targets |-> << >>]
                    ELSE ParseSetItems(Tail(setItems), id.val, targets)
           ELSE IF set.Key = "TARGETS"
           THEN LET destinations == StructItems(set.Value)
                IN  IF destinations.err # Nil
                    THEN [err |-> destinations.err, setID |-> 0, targets |-> << >>]
                    ELSE AfterTargets(Tail(setItems), setID,
                                      ParseDestinations(destinations.items, targets))
           ELSE ParseSetItems(Tail(setItems), setID, targets)

\* the loop over the entries of one RECORDS group
RECURSIVE ParseSets(_, _)

\* AfterSet, had a SET without ID been skipped
AfterSetSkipsUnidentified(rest, result, parsed) ==
  IF parsed.err # Nil THEN [err |-> parsed.err, targets |-> << >>]
  ELSE IF parsed.setID = 0 THEN ParseSets(rest, result)
  ELSE ParseSets(rest,
         result \o [k \in 1..Len(parsed.targets) |->
                      [parsed.targets[k] EXCEPT !.SetID = parsed.setID]])

\* AfterSet, had the zero-targets check been made before the set ID check
AfterSetTargetsFirst(rest, result, parsed) ==
  IF parsed.err # Nil THEN [err |-> parsed.err, targets |-> << >>]
  ELSE IF Len(parsed.targets) = 0 THEN ParseSets(rest, result)
  ELSE IF parsed.setID = 0 THEN [err |-> MissingSetID, targets |-> << >>]
  ELSE ParseSets(rest,
         result \o [k \in 1..Len(parsed.targets) |->
                      [parsed.targets[k] EXCEPT !.SetID = parsed.setID]])

\* after the fields of one SET were walked (parsed): the set ID check, then
\* the targets of the SET get its ID
AfterSet(rest, result, parsed) ==
  IF parsed.err # Nil THEN [err |-> parsed.err, targets |-> << >>]
  ELSE IF parsed.setID = 0 THEN [err |-> MissingSetID, targets |-> << >>]
  ELSE ParseSets(rest,
         result \o [k \in 1..Len(parsed.targets) |->
                      [parsed.targets[k] EXCEPT !.SetID = parsed.setID]])

ParseSets(sets, result) ==
  IF sets = << >> THEN [err |-> Nil, targets |-> result]
  ELSE LET item == Head(sets)
           setItems == StructItems(item.Value)
       IN  IF item.Key # "SET" THEN ParseSets(Tail(sets), result)
           ELSE IF setItems.err # Nil THEN [err |-> setItems.err, targets |-> << >>]
           ELSE AfterSet(Tail(sets), result, ParseSetItems(setItems.items, 0, << >>))

\* the loop over the top-level items
RECURSIVE ParseRecords(_, _)

\* after one RECORDS group was walked (parsed)
AfterRecords(rest, parsed) ==
  IF parsed.err # Nil THEN [err |-> parsed.err, targets |-> << >>]
  ELSE ParseRecords(rest, parsed.targets)

ParseRecords(items, result) ==
  IF items = << >> THEN [err |-> Nil, targets |-> result]
  ELSE LET item == Head(items)
           sets == StructItems(item.Value)
       IN  IF item.Key # "RECORDS" THEN ParseRecords(Tail(items), result)
           ELSE IF sets.err # Nil THEN [err |-> sets.err, targets |-> << >>]
           ELSE AfterRecords(Tail(items), ParseSets(sets.items, result))

parseDispatcherTargets(items) == ParseRecords(items, << >>)

(***************************************************************************)
(* parseDMQPeers walks the response exactly as parseDispatcherTargets      *)
(* does (its body is the same text) and returns one entry per DEST; the    *)
(* Host, Status and Local of an entry are never assigned from the          *)
(* response, so each peer holds the zero values.                           *)
(***************************************************************************)
PeersOf(walked) ==
  [err |-> walked.err,
   peers |-> [k \in 1..Len(walked.targets) |-> [Host |-> "", Status |-> "", Local |-> 0]]]

parseDMQPeers(items) == PeersOf(ParseRecords(items, << >>))

(***************************************************************************)
(* scrapeMethod.  fetched is what fetchBINRPC returned: (records, err).    *)
(* The result is (metrics, err), or a panic when a type assertion fails.   *)
(* The method switch is the one of lines 432-516, cases in source order:   *)
(* the "tls.info", "core.shmmem", "core.tcp_info" and "dlg.stats_active"   *)
(* cases fall through into the "dmq.list_nodes" body.                      *)
(***************************************************************************)
ServerError == 500

RemoteErrorText(method, message) ==
  "invalid response for method \"" \o method \o "\": [500] " \o message

RecordCountText(method, n) ==
  "invalid response for method \"" \o method \o "\", expected 1 record, got " \o ToString(n)

Returned(metrics, err) == [err |-> err, panic |-> FALSE, metrics |-> metrics]

Panicked == [err |-> "panic: interface conversion", panic |-> TRUE, metrics |-> EmptyMetrics]

\* case "sl.stats", "tm.stats": code buckets and plain fields
RECURSIVE ProjectStats(_, _)
ProjectStats(items, metrics) ==
  IF items = << >> THEN metrics
  ELSE LET item == Head(items)
           i == IntOf(item.Value).val
       IN  ProjectStats(Tail(items),
             IF codeRegex(item.Key)
             THEN Put(metrics, "codes",
                      Append(ValuesOf(metrics, "codes"),
                             MetricValue(i, {<<"code", item.Key>>})))
             ELSE Put(metrics, item.Key, << MetricValue(i, NoLabels) >>))

\* case "core.uptime": every field under its own name
RECURSIVE ProjectFlat(_, _)
ProjectFlat(items, metrics) ==
  IF items = << >> THEN metrics
  ELSE LET item == Head(items)
       IN  ProjectFlat(Tail(items),
             Put(metrics, item.Key, << MetricValue(IntOf(item.Value).val, NoLabels) >>))

\* ProjectPeers, had the local label been left out
ProjectPeersNoLocal(peers) ==
  IF Len(peers) = 0 THEN EmptyMetrics
  ELSE Put(EmptyMetrics, "peer",
           [k \in 1..Len(peers) |->
              MetricValue(1, { <<"host", peers[k].Host>>,
                               <<"status", peers[k].Status>> })])

\* case "dmq.list_nodes" (and the cases falling through into it)
ProjectPeers(peers) ==
  IF Len(peers) = 0 THEN EmptyMetrics
  ELSE Put(EmptyMetrics, "peer",
           [k \in 1..Len(peers) |->
              MetricValue(1, { <<"host", peers[k].Host>>,
                               <<"status", peers[k].Status>>,
                               <<"local", ToString(peers[k].Local)>> })])

\* case "dispatcher.list"
ProjectTargets(targets) ==
  IF Len(targets) = 0 THEN EmptyMetrics
  ELSE Put(EmptyMetrics, "target",
           [k \in 1..Len(targets) |->
              MetricValue(1, { <<"uri", targets[k].URI>>,
                               <<"flags", targets[k].Flags>>,
                               <<"setid", ToString(targets[k].SetID)>> })])

\* "peers, err := parseDMQPeers(items)" and what follows it
PeersCase(parsed) ==
  IF parsed.err # Nil THEN Returned(EmptyMetrics, parsed.err)
  ELSE Returned(ProjectPeers(parsed.peers), Nil)

\* "targets, err := parseDispatcherTargets(items)" and what follows it
TargetsCase(parsed) ==
  IF parsed.err # Nil THEN Returned(EmptyMetrics, parsed.err)
  ELSE Returned(ProjectTargets(parsed.targets), Nil)

\* the method switch over the items of the single struct record
ProjectMethod(method, items) ==
  IF method \in {"sl.stats", "tm.stats"}
  THEN Returned(ProjectStats(items, EmptyMetrics), Nil)
  ELSE IF method \in {"tls.info", "core.shmmem", "core.tcp_info",
                      "dlg.stats_active", "dmq.list_nodes"}
  THEN PeersCase(parseDMQPeers(items))
  ELSE IF method = "core.uptime"
  THEN Returned(ProjectFlat(items, EmptyMetrics), Nil)
  ELSE IF method = "dispatcher.list"
  THEN TargetsCase(parseDispatcherTargets(items))
  ELSE Returned(EmptyMetrics, Nil)

\* DecodeRecords, had the record count been checked before the error code
DecodeRecordsCountFirst(method, records) ==
  IF Len(records) # 1
  THEN Returned(EmptyMetrics, RecordCountText(method, Len(records)))
  ELSE LET items == StructItems(records[1])
       IN  IF items.err # Nil THEN Returned(EmptyMetrics, items.err)
           ELSE ProjectMethod(method, items.items)

\* the checks on the record sequence, before the switch
DecodeRecords(method, records) ==
  IF Len(records) = 2 /\ records[1].Type = TypeInt /\ records[1].Int = ServerError
  THEN IF records[2].Type = TypeString
       THEN Returned(EmptyMetrics, RemoteErrorText(method, records[2].Str))
       ELSE Panicked
  ELSE IF Len(records) # 1
  THEN Returned(EmptyMetrics, RecordCountText(method, Len(records)))
  ELSE LET items == StructItems(records[1])
       IN  IF items.err # Nil THEN Returned(EmptyMetrics, items.err)
           ELSE ProjectMethod(method, items.items)

scrapeMethod(method, fetched) ==
  IF fetched.err # Nil THEN Returned(EmptyMetrics, fetched.err)
  ELSE DecodeRecords(method, fetched.records)

(***************************************************************************)
(* The emission loop of scrape for one method: catalog entry by catalog    *)
(* entry, every value found under the entry's name.                        *)
(* prometheus.NewConstMetric refuses a label value that is not valid       *)
(* UTF-8; InvalidText stands for such a text.                              *)
(***************************************************************************)
InvalidText == "<ff>"

ValidString(s) == s # InvalidText

\* what travels on the channel; idx is the position, in Methods, of the
\* method that produced the sample (0 for a health series)
Sample(def, mv, idx) ==
  [name |-> ExportedName(def), kind |-> def.Kind, keys |-> LabelKeys(mv),
   vals |-> LabelValues(mv), value |-> mv.Value, health |-> FALSE, idx |-> idx]

NotValidUTF8 == "label value is not valid UTF-8"

NewConstMetricErr(mv) ==
  IF \E kv \in mv.Labels : ~ValidString(kv[2]) THEN NotValidUTF8 ELSE Nil

\* the inner loop over the values of one catalog entry
RECURSIVE EmitValues(_, _, _, _)
EmitValues(def, metricValues, idx, sent) ==
  IF metricValues = << >> THEN [err |-> Nil, sent |-> sent]
  ELSE LET e == NewConstMetricErr(Head(metricValues))
       IN  IF e # Nil THEN [err |-> e, sent |-> sent]
           ELSE EmitValues(def, Tail(metricValues), idx,
                           Append(sent, Sample(def, Head(metricValues), idx)))

\* the loop over metricsList[method]
RECURSIVE EmitDefs(_, _, _, _)

\* after the values of one catalog entry were sent (r)
AfterValues(rest, metricsScraped, idx, r) ==
  IF r.err # Nil THEN r
  ELSE EmitDefs(rest, metricsScraped, idx, r.sent)

EmitDefs(defs, metricsScraped, idx, sent) ==
  IF defs = << >> THEN [err |-> Nil, sent |-> sent]
  ELSE IF ~Found(metricsScraped, Head(defs).Name)
  THEN EmitDefs(Tail(defs), metricsScraped, idx, sent)
  ELSE AfterValues(Tail(defs), metricsScraped, idx,
                   EmitValues(Head(defs), ValuesOf(metricsScraped, Head(defs).Name), idx, sent))

\* EmitMethod, had the loop gone over the scraped names, in their order
EmitMethodScrapedOrder(method, metricsScraped, idx) ==
  EmitDefs(Concat([k \in 1..Len(metricsScraped) |->
                     SelectSeq(metricsList(method),
                               LAMBDA d : d.Name = metricsScraped[k].Name)]),
           metricsScraped, idx, << >>)

EmitMethod(method, metricsScraped, idx) ==
  EmitDefs(metricsList(method), metricsScraped, idx, << >>)

(***************************************************************************)
(* The environment: what NewCollector may be given, and what one RPC call  *)
(* may return.                                                             *)
(***************************************************************************)
\* entries the comma-separated method list is made of
EntryPool == {"core.uptime", "dispatcher.list", "", "nosuch"}

\* the method lists: 1..MaxEntries entries joined by commas ("" is the
\* empty list: strings.Split gives it one empty entry)
RECURSIVE EntryLists(_)
EntryLists(n) ==
  IF n = 0 THEN { << >> }
  ELSE LET shorter == EntryLists(n - 1)
       IN  shorter \cup { Append(l, e) : l \in { x \in shorter : Len(x) = n - 1 }, e \in EntryPool }

MethodLists == { l \in EntryLists(MaxEntries) : Len(l) >= 1 }

Dest(uri, flags) ==
  Item("DEST", StructRec(<< Item("URI", uri), Item("FLAGS", flags) >>))

Set(fields) == Item("SET", StructRec(fields))

DispatcherList(sets) ==
  StructRec(<< Item("NRSETS", IntRec(Len(sets))), Item("RECORDS", StructRec(sets)) >>)

RespUptime == << StructRec(<< Item("uptime", IntRec(12345)) >>) >>

RespTargets ==
  << DispatcherList(<< Set(<< Item("ID", IntRec(2)),
                             Item("TARGETS", StructRec(<<
                                Dest(StrRec("sip:10.0.0.1"), StrRec("AP")),
                                Dest(StrRec("sip:10.0.0.2"), StrRec("D")) >>)) >>) >>) >>

\* the second DEST carries a URI that is not valid UTF-8
RespTargetsInvalid ==
  << DispatcherList(<< Set(<< Item("ID", IntRec(2)),
                             Item("TARGETS", StructRec(<<
                                Dest(StrRec("sip:10.0.0.1"), StrRec("AP")),
                                Dest(StrRec(InvalidText), StrRec("D")) >>)) >>) >>) >>

RespNoSetID ==
  << DispatcherList(<< Set(<< Item("TARGETS", StructRec(<<
                                Dest(StrRec("sip:10.0.0.1"), StrRec("AP")) >>)) >>) >>) >>

RespRemoteError == << IntRec(ServerError), StrRec("no such module") >>

\* the server error code followed by a record that is no text
RespErrorNoText == << IntRec(ServerError), IntRec(1) >>

RespNone == << >>

RespInt == << IntRec(7) >>

RespTwoStructs == RespUptime \o RespUptime

Responses ==
  { RespUptime, RespTargets, RespTargetsInvalid, RespNoSetID, RespRemoteError,
    RespErrorNoText, RespNone, RespInt, RespTwoStructs }

TransportError == "transport error"

\* fetchBINRPC: WritePacket or ReadPacket fails, or the records come back
Fetches ==
  { [err |-> TransportError, records |-> << >>] }
    \cup { [err |-> Nil, records |-> r] : r \in Responses }

(***************************************************************************)
(* State.                                                                  *)
(***************************************************************************)
\* the goroutines in which the registry calls Collect
Callers == {"g1", "g2"}

VARIABLES
  input,          \* what NewCollector was given: [uriOK, methods]
  collector,      \* "none" before NewCollector, then "ok" or "error"
  Methods,        \* Collector.Methods
  mutex,          \* Collector.mutex is locked
  conn,           \* Collector.conn: 0 for nil, else the connection's id
  dials,          \* connections the network has opened so far
  openConns,      \* ids of the connections that are open
  up,             \* Collector.up
  totalScrapes,   \* Collector.totalScrapes
  failedScrapes,  \* Collector.failedScrapes
  crashed,        \* the process died of an unrecovered panic
  calls,          \* Collect calls made so far
  pc,             \* per caller: where it is in Collect / scrape
  i,              \* per caller: position, in Methods, of the method in hand
  err,            \* per caller: the error scrape returns (Nil for none)
  records,        \* per caller: the records of the last RPC call
  closer,         \* per caller: the connection its deferred Close closes
  rpc,            \* per caller: the methods called in this cycle, in order
  out,            \* per caller: what this Collect call sent on its channel
  atStart,        \* per caller: the counters and the dials when its cycle began
  stage,          \* one round of the loop taken alone: "off", "call", "emit", "done"
  probe,          \* that round's method and the records its RPC call returned
  scraped,        \* that round's scrapeMethod result: (metrics, err)
  sunk            \* that round's emission loop: (sent, err)

vars ==
  << input, collector, Methods, mutex, conn, dials, openConns, up, totalScrapes,
     failedScrapes, crashed, calls, pc, i, err, records, closer, rpc, out, atStart,
     stage, probe, scraped, sunk >>

\* the state of one round of the loop taken alone
round == << stage, probe, scraped, sunk >>

config == << input, collector, Methods >>
health == << up, totalScrapes, failedScrapes >>
network == << conn, dials, openConns >>
locals == << i, err, records, closer, rpc, out, atStart >>

NoInput == [uriOK |-> FALSE, methods |-> "-"]

\* nothing was constructed and nobody has called Collect
NotStarted ==
  /\ input = NoInput
  /\ collector = "none"
  /\ Methods = << >>
  /\ mutex = FALSE
  /\ conn = 0
  /\ dials = 0
  /\ openConns = {}
  /\ up = 0
  /\ totalScrapes = 0
  /\ failedScrapes = 0
  /\ crashed = FALSE
  /\ calls = 0
  /\ pc = [p \in Callers |-> "idle"]
  /\ i = [p \in Callers |-> 0]
  /\ err = [p \in Callers |-> Nil]
  /\ records = [p \in Callers |-> << >>]
  /\ closer = [p \in Callers |-> 0]
  /\ rpc = [p \in Callers |-> << >>]
  /\ out = [p \in Callers |-> << >>]
  /\ atStart = [p \in Callers |-> [total |-> 0, failed |-> 0, dials |-> 0]]

NoProbe == [method |-> "", records |-> << >>]
NoResult == [err |-> Nil, panic |-> FALSE, metrics |-> EmptyMetrics]
NoneSent == [err |-> Nil, sent |-> << >>]

Init ==
  /\ NotStarted
  /\ stage = "off"
  /\ probe = NoProbe
  /\ scraped = NoResult
  /\ sunk = NoneSent

(***************************************************************************)
(* NewCollector (called once by main, which panics on an error).           *)
(***************************************************************************)
\* InvalidEntries, had the validation loop skipped empty entries
InvalidEntriesButEmpty(methods) ==
  { k \in 1..Len(methods) :
      /\ methods[k] # ""
      /\ \A a \in 1..Len(availableMethods) : availableMethods[a] # methods[k] }

\* the validation loop: the entries that are no available method
InvalidEntries(methods) ==
  { k \in 1..Len(methods) :
      \A a \in 1..Len(availableMethods) : availableMethods[a] # methods[k] }

\* (Methods, err) for the arguments
NewCollectorResult(uriOK, methods) ==
  IF ~uriOK THEN [err |-> "cannot parse URI", Methods |-> << >>]
  ELSE LET split == Split(methods, ",")
       IN  IF InvalidEntries(split) # {}
           THEN [err |-> "invalid method", Methods |-> << >>]
           ELSE [err |-> Nil, Methods |-> split]

NewCollector ==
  /\ collector = "none"
  /\ \E uriOK \in BOOLEAN, list \in MethodLists :
       LET methods == Join(list, ",")
           r == NewCollectorResult(uriOK, methods)
       IN  /\ input' = [uriOK |-> uriOK, methods |-> methods]
           /\ collector' = IF r.err = Nil THEN "ok" ELSE "error"
           /\ Methods' = r.Methods
  /\ UNCHANGED << round, mutex, network, health, crashed, calls, pc, locals >>

(***************************************************************************)
(* Collect, one caller p.  A step is guarded by the process being alive.   *)
(***************************************************************************)
Alive == collector = "ok" /\ ~crashed

\* the registry calls c.Collect(ch) in goroutine p
Call(p) ==
  /\ Alive
  /\ pc[p] = "idle"
  /\ calls < MaxCycles
  /\ calls' = calls + 1
  /\ pc' = [pc EXCEPT ![p] = "lock"]
  /\ UNCHANGED << round, config, mutex, network, health, crashed, locals >>

\* the cycle begins
BeginCycle(p) ==
  /\ mutex' = TRUE
  /\ pc' = [pc EXCEPT ![p] = "scrape"]
  /\ i' = [i EXCEPT ![p] = 0]
  /\ err' = [err EXCEPT ![p] = Nil]
  /\ records' = [records EXCEPT ![p] = << >>]
  /\ closer' = [closer EXCEPT ![p] = 0]
  /\ rpc' = [rpc EXCEPT ![p] = << >>]
  /\ out' = [out EXCEPT ![p] = << >>]
  /\ atStart' = [atStart EXCEPT ![p] = [total |-> totalScrapes, failed |-> failedScrapes,
                                         dials |-> dials]]
  /\ UNCHANGED << round, config, network, health, crashed, calls >>

\* Lock, had Collect not waited for the mutex
LockNoWait(p) ==
  /\ Alive
  /\ pc[p] = "lock"
  /\ BeginCycle(p)

\* c.mutex.Lock(): waits until the mutex is free
Lock(p) ==
  /\ Alive
  /\ pc[p] = "lock"
  /\ ~mutex
  /\ BeginCycle(p)

\* scrape: c.totalScrapes.Inc()
ScrapeBegin(p) ==
  /\ Alive
  /\ pc[p] = "scrape"
  /\ totalScrapes' = totalScrapes + 1
  /\ pc' = [pc EXCEPT ![p] = "dial"]
  /\ UNCHANGED << round, config, mutex, network, up, failedScrapes, crashed, calls, locals >>

\* scrape: net.DialTimeout, SetDeadline, defer c.conn.Close()
Dial(p) ==
  /\ Alive
  /\ pc[p] = "dial"
  /\ \E ok \in BOOLEAN :
       IF ok
       THEN /\ dials' = dials + 1
            /\ conn' = dials + 1
            /\ openConns' = openConns \cup {dials + 1}
            /\ closer' = [closer EXCEPT ![p] = dials + 1]
            /\ i' = [i EXCEPT ![p] = 1]
            /\ pc' = [pc EXCEPT ![p] = "loop"]
            /\ err' = err
       ELSE /\ conn' = 0
            /\ err' = [err EXCEPT ![p] = "dial error"]
            /\ pc' = [pc EXCEPT ![p] = "collect"]
            /\ UNCHANGED << dials, openConns, closer, i >>
  /\ UNCHANGED << round, config, mutex, health, crashed, calls, records, rpc, out, atStart >>

\* DeferredClose, had scrape not deferred the Close
NoDeferredClose(p) == openConns

\* the deferred c.conn.Close() of scrape: the open connections once it ran
DeferredClose(p) == openConns \ {closer[p]}

\* AbortOn, had the loop gone on after an error
NeverAbort(e) == FALSE

\* "if err != nil { return err }" in the loop of scrape
AbortOn(e) == e # Nil

\* NextMethod, had the loop called the same method again
SameMethod(idx) == idx

\* the loop variable after one method was scraped and emitted
NextMethod(idx) == idx + 1

\* fetchBINRPC writes to and reads from c.conn
FetchOn(c, fetched) ==
  IF c \in openConns THEN fetched
  ELSE [err |-> "use of closed network connection", records |-> << >>]

\* the body of the loop of scrape for one method: scrapeMethod, then, when
\* it returned no error, the emission loop.  (err, panic, sent)
ScrapeBody(method, idx, c, got) ==
  LET r == IF method \notin CatalogMethods \/ c = 0 THEN Panicked
           ELSE scrapeMethod(method, got)
  IN  IF r.err # Nil THEN [err |-> r.err, panic |-> r.panic, sent |-> << >>]
      ELSE [panic |-> FALSE] @@ EmitMethod(method, r.metrics, idx)

\* what one round of the loop leaves behind, b being the result of its body
AfterBody(p, b) ==
  /\ err' = [err EXCEPT ![p] = b.err]
  /\ out' = [out EXCEPT ![p] = @ \o b.sent]
  /\ IF b.panic
     THEN \* the deferred Close and Unlock run, then the process dies
          /\ pc' = [pc EXCEPT ![p] = "panicked"]
          /\ crashed' = TRUE
          /\ mutex' = FALSE
          /\ openConns' = DeferredClose(p)
          /\ i' = i
     ELSE IF AbortOn(b.err)
     THEN /\ pc' = [pc EXCEPT ![p] = "collect"]
          /\ openConns' = DeferredClose(p)
          /\ UNCHANGED << crashed, mutex, i >>
     ELSE /\ i' = [i EXCEPT ![p] = NextMethod(@)]
          /\ UNCHANGED << pc, crashed, mutex, openConns >>

\* one round of the loop of scrape with what the call brought back
ScrapeOneWith(p, method, got) ==
  /\ rpc' = [rpc EXCEPT ![p] = Append(@, method)]
  /\ records' = [records EXCEPT ![p] = got.records]
  /\ AfterBody(p, ScrapeBody(method, i[p], conn, got))

\* one round of the loop of scrape
ScrapeOne(p) ==
  /\ Alive
  /\ pc[p] = "loop"
  /\ i[p] <= Len(Methods)
  /\ \E fetched \in Fetches : ScrapeOneWith(p, Methods[i[p]], FetchOn(conn, fetched))
  /\ UNCHANGED << round, config, conn, dials, health, calls, closer, atStart >>

\* the loop is over: scrape returns nil, its deferred Close runs
ScrapeReturn(p) ==
  /\ Alive
  /\ pc[p] = "loop"
  /\ i[p] > Len(Methods)
  /\ openConns' = DeferredClose(p)
  /\ pc' = [pc EXCEPT ![p] = "collect"]
  /\ UNCHANGED << round, config, mutex, conn, dials, health, crashed, calls, locals >>

\* Collect: "if err != nil { failedScrapes.Inc(); up.Set(0) } else { up.Set(1) }"
Outcome(p) ==
  /\ Alive
  /\ pc[p] = "collect"
  /\ IF err[p] # Nil
     THEN failedScrapes' = failedScrapes + 1 /\ up' = 0
     ELSE failedScrapes' = failedScrapes /\ up' = 1
  /\ pc' = [pc EXCEPT ![p] = "health"]
  /\ UNCHANGED << round, config, mutex, network, totalScrapes, crashed, calls, locals >>

\* the three collectors sent on the channel (the sink reads their values)
HealthSeries(name, kind) ==
  [name |-> namespace \o "_" \o name, kind |-> kind, keys |-> << >>, vals |-> << >>,
   value |-> 0, health |-> TRUE, idx |-> 0]

HealthOutput ==
  << HealthSeries("up", GaugeValue),
     HealthSeries("exporter_total_scrapes", CounterValue),
     HealthSeries("exporter_failed_scrapes", CounterValue) >>

\* Collect: ch <- c.up; ch <- c.totalScrapes; ch <- c.failedScrapes
EmitHealth(p) ==
  /\ Alive
  /\ pc[p] = "health"
  /\ out' = [out EXCEPT ![p] = @ \o HealthOutput]
  /\ pc' = [pc EXCEPT ![p] = "unlock"]
  /\ UNCHANGED << round, config, mutex, network, health, crashed, calls,
                  i, err, records, closer, rpc, atStart >>

\* Collect returns: the deferred c.mutex.Unlock()
Unlock(p) ==
  /\ Alive
  /\ pc[p] = "unlock"
  /\ mutex' = FALSE
  /\ pc' = [pc EXCEPT ![p] = "idle"]
  /\ UNCHANGED << round, config, network, health, crashed, calls, locals >>

Next ==
  \/ NewCollector
  \/ \E p \in Callers :
       \/ Call(p)
       \/ Lock(p)
       \/ ScrapeBegin(p)
       \/ Dial(p)
       \/ ScrapeOne(p)
       \/ ScrapeReturn(p)
       \/ Outcome(p)
       \/ EmitHealth(p)
       \/ Unlock(p)

Spec == Init /\ [][Next]_vars

(***************************************************************************)
(* One round of the loop of scrape taken alone, on an open connection:     *)
(* scrapeMethod on the single struct record the call returned, then the    *)
(* emission loop.  The record is any struct built from the fields and the  *)
(* dispatcher sets below, for any method of the catalog.                   *)
(***************************************************************************)
\* top-level fields of one response
MaxFields == 2
\* entries of the RECORDS group of one response
MaxSets == 2

\* the sequences of at most n elements of S
RECURSIVE ListsOver(_, _)
ListsOver(S, n) ==
  IF n = 0 THEN { << >> }
  ELSE LET shorter == ListsOver(S, n - 1)
       IN  shorter \cup { Append(l, e) : l \in { x \in shorter : Len(x) = n - 1 }, e \in S }

\* top-level fields: code buckets, named fields, values that are no integer
FieldPool ==
  { Item("200", IntRec(3)), Item("4xx", IntRec(1)), Item("xxx", IntRec(6)),
    Item("5xx", StrRec("n/a")), Item("20", IntRec(2)),
    Item("waiting", IntRec(4)), Item("current", IntRec(5)),
    Item("current", StrRec("many")), Item("codes", IntRec(7)),
    Item("uptime", IntRec(12345)), Item("total", IntRec(9)) }

\* entries of a RECORDS group
SetPool ==
  { \* a SET with two DEST
    Set(<< Item("ID", IntRec(2)),
           Item("TARGETS", StructRec(<< Dest(StrRec("sip:10.0.0.1"), StrRec("AP")),
                                        Dest(StrRec("sip:10.0.0.2"), StrRec("D")) >>)) >>),
    \* the ID comes after the TARGETS
    Set(<< Item("TARGETS", StructRec(<< Dest(StrRec("sip:10.0.0.3"), StrRec("AX")) >>)),
           Item("ID", IntRec(3)) >>),
    \* TARGETS without any DEST
    Set(<< Item("ID", IntRec(4)), Item("TARGETS", StructRec(<< >>)) >>),
    \* no TARGETS
    Set(<< Item("ID", IntRec(6)) >>),
    \* no ID
    Set(<< Item("TARGETS", StructRec(<< Dest(StrRec("sip:10.0.0.4"), StrRec("AP")) >>)) >>),
    \* ID 0, without and with a DEST
    Set(<< Item("ID", IntRec(0)), Item("TARGETS", StructRec(<< >>)) >>),
    Set(<< Item("ID", IntRec(0)),
           Item("TARGETS", StructRec(<< Dest(StrRec("sip:10.0.0.5"), StrRec("IP")) >>)) >>),
    \* an ID that is no integer
    Set(<< Item("ID", StrRec("two")),
           Item("TARGETS", StructRec(<< Dest(StrRec("sip:10.0.0.6"), StrRec("AP")) >>)) >>),
    \* other keys at every level, a URI that is no text, a DEST without FLAGS
    Set(<< Item("ID", IntRec(5)), Item("NAME", StrRec("edge")),
           Item("TARGETS", StructRec(<<
              Item("LATENCY", StructRec(<< Item("URI", StrRec("sip:10.0.0.7")) >>)),
              Item("DEST", StructRec(<< Item("URI", IntRec(1)), Item("FLAGS", StrRec("AP")),
                                        Item("PRIORITY", IntRec(0)) >>)),
              Item("DEST", StructRec(<< Item("URI", StrRec("sip:10.0.0.8")) >>)) >>)) >>),
    \* an entry that is no SET
    Item("NOTE", StructRec(<< Item("ID", IntRec(9)),
           Item("TARGETS", StructRec(<< Dest(StrRec("sip:10.0.0.9"), StrRec("AP")) >>)) >>)) }

\* the struct records a call may return
ProbeRecords ==
  { << StructRec(fields) >> : fields \in ListsOver(FieldPool, MaxFields) }
    \cup { << DispatcherList(sets) >> : sets \in ListsOver(SetPool, MaxSets) }

Probes == { [method |-> m, records |-> r] : m \in CatalogMethods, r \in ProbeRecords }

\* the variables of the Collect cycles
cycles ==
  << input, collector, Methods, mutex, conn, dials, openConns, up, totalScrapes,
     failedScrapes, crashed, calls, pc, i, err, records, closer, rpc, out, atStart >>

InitRound ==
  /\ NotStarted
  /\ stage = "call"
  /\ probe \in Probes
  /\ scraped = NoResult
  /\ sunk = NoneSent

\* "metricsScraped, err := c.scrapeMethod(method)" returned r
AfterScrape(r) ==
  /\ scraped' = r
  /\ stage' = IF AbortOn(r.err) THEN "done" ELSE "emit"

RoundScrape ==
  /\ stage = "call"
  /\ AfterScrape(scrapeMethod(probe.method, [err |-> Nil, records |-> probe.records]))
  /\ UNCHANGED << probe, sunk, cycles >>

\* the loop over metricsList[method]
RoundEmit ==
  /\ stage = "emit"
  /\ sunk' = EmitMethod(probe.method, scraped.metrics, 1)
  /\ stage' = "done"
  /\ UNCHANGED << probe, scraped, cycles >>

NextRound == RoundScrape \/ RoundEmit

SpecRound == InitRound /\ [][NextRound]_vars

(***************************************************************************)
(* Properties.                                                             *)
(***************************************************************************)
\* p is inside a cycle: it holds the lock and Collect has not returned
InCycle(p) == pc[p] \in {"scrape", "dial", "loop", "collect", "health", "unlock"}

\* scrape is over for p: it returned, or it panicked
ScrapeOver(p) == pc[p] \in {"collect", "health", "unlock", "panicked"}

\* the cycle of p is over: only the deferred Unlock is left, or the panic
\* ended it
CycleOver(p) == pc[p] \in {"unlock", "panicked"}

\* the non-health samples of an output, in order
Samples(sent) == SelectSeq(sent, LAMBDA m : ~m.health)

SamplesOf(sent, idx) == SelectSeq(sent, LAMBDA m : ~m.health /\ m.idx = idx)

\* one integer record equal to the server error code, then one text record
IsRemoteError(recs) ==
  /\ Len(recs) = 2
  /\ recs[1].Type = TypeInt
  /\ recs[1].Int = ServerError
  /\ recs[2].Type = TypeString

IsOneStruct(recs) == Len(recs) = 1 /\ recs[1].Type = TypeStruct

\* p has made an RPC call in its cycle and the transport brought back records[p]
Answered(p) == Len(rpc[p]) >= 1 /\ err[p] # TransportError

\* C1: every cycle adds exactly 1 to total-scrapes at its start; a cycle that
\* succeeds sets up to 1 and leaves failed-scrapes alone; a cycle that fails
\* at any stage adds exactly 1 to failed-scrapes and sets up to 0.
C1_HealthAccounting ==
  \A p \in Callers :
    /\ (pc[p] = "dial" \/ pc[p] = "loop" \/ ScrapeOver(p))
         => totalScrapes = atStart[p].total + 1
    /\ CycleOver(p) =>
         IF err[p] = Nil
         THEN up = 1 /\ failedScrapes = atStart[p].failed
         ELSE up = 0 /\ failedScrapes = atStart[p].failed + 1

C3_HealthSeriesLast ==
  \A p \in Callers :
    CycleOver(p) =>
      /\ Len(out[p]) >= 3
      /\ SubSeq(out[p], Len(out[p]) - 2, Len(out[p])) = HealthOutput
      /\ \A k \in 1..(Len(out[p]) - 3) : ~out[p][k].health

\* C4: at most one cycle is in flight, and the lock is held for all of it,
\* from before the connect until after the health series were sent.
C4_OneCycleInFlight ==
  /\ Cardinality({p \in Callers : InCycle(p)}) <= 1
  /\ (\E p \in Callers : InCycle(p)) => mutex

\* one caller is in the middle of its cycle, having sent samples, while
\* another has called Collect and waits for the lock
C4_Witness ==
  \E p, q \in Callers :
    /\ pc[p] = "loop"
    /\ i[p] = 2
    /\ Samples(out[p]) # << >>
    /\ pc[q] = "lock"
    /\ mutex

\* C5: a cycle has one connection, opened fresh at its start and closed when
\* scrape returns, whatever the outcome; the connection in use is the one
\* this cycle opened; no connection is open while no cycle is in flight.
C5_OneConnectionPerCycle ==
  /\ Cardinality(openConns) <= 1
  /\ (\A p \in Callers : ~InCycle(p)) => openConns = {}
  /\ \A p \in Callers :
       /\ pc[p] = "loop" =>
            /\ conn = closer[p]
            /\ openConns = {conn}
            /\ conn = atStart[p].dials + 1
            /\ dials = conn
       /\ ScrapeOver(p) => closer[p] \notin openConns

\* a second cycle failed after its connect and its connection is closed
C5_Witness ==
  \E p \in Callers :
    /\ pc[p] = "unlock"
    /\ err[p] # Nil
    /\ closer[p] = 2
    /\ dials = 2
    /\ openConns = {}

\* C6: the methods are called in their declared order, each once: a call is
\* made only when every earlier method went through without error, no call
\* follows the first failure, and every cycle starts from the first method.
C6_DeclaredOrderNoRetry ==
  \A p \in Callers :
    /\ Len(rpc[p]) <= Len(Methods)
    /\ rpc[p] = SubSeq(Methods, 1, Len(rpc[p]))
    /\ pc[p] = "loop" => (err[p] = Nil /\ Len(rpc[p]) = i[p] - 1)
    /\ (ScrapeOver(p) /\ err[p] # Nil) => Len(rpc[p]) = i[p]
    /\ (ScrapeOver(p) /\ err[p] = Nil) => rpc[p] = Methods

\* the second cycle of a run over two different methods failed at its first
\* method, after a first cycle that had failed too: one call was made
C6_Witness ==
  \E p \in Callers :
    /\ pc[p] = "unlock"
    /\ Len(Methods) = 2
    /\ Methods[1] # Methods[2]
    /\ totalScrapes = 2
    /\ failedScrapes = 2
    /\ rpc[p] = << Methods[1] >>

\* C7: every failure of a cycle is recovered inside Collect: no panic, Collect
\* returns with the lock released, and the failure shows as failed-scrapes + 1
\* and up = 0.
C7_FailuresRecovered ==
  /\ ~crashed
  /\ \A p \in Callers :
       /\ pc[p] # "panicked"
       /\ (pc[p] = "unlock" /\ err[p] # Nil)
            => (failedScrapes = atStart[p].failed + 1 /\ up = 0 /\ ENABLED Unlock(p))

\* the method lists the given text can be cut into
ListsOf(methods) == { l \in MethodLists : Join(l, ",") = methods }

Supported == { availableMethods[a] : a \in 1..Len(availableMethods) }

\* C8: NewCollector fails, leaving no Collector and no network activity,
\* when some entry of the comma-separated list is no supported method (an
\* empty entry included); otherwise, the URI parsing, it returns a Collector
\* whose Methods are the entries in the order given.
C8_MethodListValidated ==
  collector # "none" =>
    \A l \in ListsOf(input.methods) :
      IF (\E k \in 1..Len(l) : l[k] \notin Supported) \/ ~input.uriOK
      THEN /\ collector = "error"
           /\ Methods = << >>
           /\ dials = 0 /\ openConns = {} /\ calls = 0
           /\ \A p \in Callers : pc[p] = "idle"
      ELSE collector = "ok" /\ Methods = l

\* NewCollector has refused a list with a stray comma, the URI being fine
C8_Witness ==
  /\ collector = "error"
  /\ input.uriOK
  /\ input.methods = "core.uptime,"
  /\ ListsOf(input.methods) = { << "core.uptime", "" >> }

\* C9: a response of one integer record equal to 500 followed by one text
\* record makes the method fail with the remote error carrying that code and
\* message, and the method sends no sample.
C9_RemoteError ==
  \A p \in Callers :
    (Answered(p) /\ IsRemoteError(records[p])) =>
      /\ pc[p] \notin {"loop", "panicked"}
      /\ err[p] = "invalid response for method \"" \o Methods[i[p]]
                    \o "\": [500] " \o records[p][2].Str
      /\ SamplesOf(out[p], i[p]) = << >>

\* a method was answered [Int(500), Text("no such module")]
C9_Witness ==
  \E p \in Callers :
    /\ pc[p] = "collect"
    /\ rpc[p] = << "core.uptime" >>
    /\ records[p] = << IntRec(500), StrRec("no such module") >>

\* C10: a response that is no remote-error response and not exactly one
\* struct record makes the method fail with an error (no panic) and send no
\* sample.
C10_MalformedResponse ==
  \A p \in Callers :
    (Answered(p) /\ ~IsRemoteError(records[p]) /\ ~IsOneStruct(records[p])) =>
      /\ pc[p] \notin {"loop", "panicked"}
      /\ err[p] # Nil
      /\ SamplesOf(out[p], i[p]) = << >>

(***************************************************************************)
(* Properties of one round: projection and emission.                       *)
(***************************************************************************)
\* scrapeMethod has returned for a method among ms
ScrapedFor(ms) == stage # "call" /\ probe.method \in ms

\* the top-level fields of the response
Fields == probe.records[1].Items

\* every top-level field of the response holds an integer
AllIntegers == \A k \in 1..Len(Fields) : Fields[k].Value.Type = TypeInt

\* the keys of three characters, each a digit or x
CodeKeys == { a \o b \o c : a \in CodeChars, b \in CodeChars, c \in CodeChars }

\* the fields of the response whose key is a code, in response order
CodeFields == SelectSeq(Fields, LAMBDA f : f.Key \in CodeKeys)

\* the value of the last field of the response named key
LastNamed(key) ==
  Fields[CHOOSE k \in 1..Len(Fields) :
           /\ Fields[k].Key = key
           /\ \A j \in (k + 1)..Len(Fields) : Fields[j].Key # key].Value

\* C11: for tm.stats and sl.stats every field whose key is three characters
\* among 0-9 and x is one sample of codes, labelled code=<key> and valued by
\* the field's integer, and is no metric of its own; a field with any other
\* key is never folded into codes and is projected under its own name
\* without labels.
C11_CodeBuckets ==
  (ScrapedFor({"tm.stats", "sl.stats"}) /\ AllIntegers) =>
    /\ scraped.err = Nil
    /\ ValuesOf(scraped.metrics, "codes")
         = [k \in 1..Len(CodeFields) |->
              [Value |-> CodeFields[k].Value.Int,
               Labels |-> { << "code", CodeFields[k].Key >> }]]
    /\ \A k \in 1..Len(Fields) :
         IF Fields[k].Key \in CodeKeys
         THEN ~Found(scraped.metrics, Fields[k].Key)
         ELSE ValuesOf(scraped.metrics, Fields[k].Key)
                = << [Value |-> LastNamed(Fields[k].Key).Int, Labels |-> {}] >>

\* the methods whose response is a flat list of integer fields
FlatMethods == {"core.shmmem", "core.uptime", "core.tcp_info", "tls.info"}

\* the names the projection has filled
NamesOf(metrics) == { metrics[k].Name : k \in 1..Len(metrics) }

\* C12: for core.shmmem, core.uptime, core.tcp_info and tls.info every
\* top-level field projects to exactly one sample under the field's key,
\* without labels and valued by the field's integer; core.uptime returning
\* {uptime: 12345} sends exactly one counter sample
\* kamailio_core_uptime_uptime_total = 12345.
C12_FlatFields ==
  (ScrapedFor(FlatMethods) /\ AllIntegers) =>
    /\ scraped.err = Nil
    /\ NamesOf(scraped.metrics) = { Fields[k].Key : k \in 1..Len(Fields) }
    /\ \A k \in 1..Len(Fields) :
         ValuesOf(scraped.metrics, Fields[k].Key)
           = << [Value |-> LastNamed(Fields[k].Key).Int, Labels |-> {}] >>
    /\ (stage = "done" /\ probe.method = "core.uptime" /\ probe.records = RespUptime) =>
         /\ sunk.err = Nil
         /\ Len(sunk.sent) = 1
         /\ sunk.sent[1].name = "kamailio_core_uptime_uptime_total"
         /\ sunk.sent[1].kind = "counter"
         /\ sunk.sent[1].keys = << >>
         /\ sunk.sent[1].value = 12345

\* the entries of every struct named key among items, in order
Under(items, key) ==
  Concat([k \in 1..Len(items) |->
            IF items[k].Key = key /\ items[k].Value.Type = TypeStruct
            THEN items[k].Value.Items ELSE << >>])

\* the SET entries under RECORDS, in response order
SetsOfResponse == SelectSeq(Under(Fields, "RECORDS"), LAMBDA e : e.Key = "SET")

\* the DEST entries under the TARGETS of a SET
DestsOfSet(set) == SelectSeq(Under(set.Value.Items, "TARGETS"), LAMBDA d : d.Key = "DEST")

HasField(items, key) == \E k \in 1..Len(items) : items[k].Key = key

\* the value of the last field named key
FieldOf(items, key) ==
  items[CHOOSE k \in 1..Len(items) :
          /\ items[k].Key = key
          /\ \A j \in (k + 1)..Len(items) : items[j].Key # key].Value

\* every DEST of the response with the ID of the SET around it, in order
DestsOfResponse ==
  Concat([s \in 1..Len(SetsOfResponse) |->
            [d \in 1..Len(DestsOfSet(SetsOfResponse[s])) |->
               [props |-> DestsOfSet(SetsOfResponse[s])[d].Value.Items,
                set |-> SetsOfResponse[s].Value.Items]]])

\* the label value of a sample
Label(mv, key) == (CHOOSE kv \in mv.Labels : kv[1] = key)[2]

\* props holds a text under key and the sample carries it as label
Carries(mv, label, props, key) ==
  (HasField(props, key) /\ FieldOf(props, key).Type = TypeString)
    => Label(mv, label) = FieldOf(props, key).Str

\* C13: dispatcher.list projects exactly one target sample per DEST found
\* under a TARGETS group of a SET under RECORDS, in response order, each
\* valued 1 with the label keys uri, flags and setid: the DEST's URI and
\* FLAGS and the ID of the SET around the DEST; entries with other keys are
\* ignored at every level.
C13_DispatcherTargets ==
  (ScrapedFor({"dispatcher.list"}) /\ scraped.err = Nil) =>
    LET targets == ValuesOf(scraped.metrics, "target")
    IN  /\ Len(targets) = Len(DestsOfResponse)
        /\ NamesOf(scraped.metrics) \subseteq {"target"}
        /\ \A k \in 1..Len(targets) :
             /\ targets[k].Value = 1
             /\ { kv[1] : kv \in targets[k].Labels } = {"uri", "flags", "setid"}
             /\ Cardinality(targets[k].Labels) = 3
             /\ Label(targets[k], "setid")
                  = ToString(FieldOf(DestsOfResponse[k].set, "ID").Int)
             /\ Carries(targets[k], "uri", DestsOfResponse[k].props, "URI")
             /\ Carries(targets[k], "flags", DestsOfResponse[k].props, "FLAGS")

\* one SET{ID=2} with two DEST has given two samples, both with setid=2
C13_Witness ==
  /\ ScrapedFor({"dispatcher.list"})
  /\ probe.records = RespTargets
  /\ ValuesOf(scraped.metrics, "target")
       = << [Value |-> 1,
             Labels |-> { <<"uri", "sip:10.0.0.1">>, <<"flags", "AP">>, <<"setid", "2">> }],
            [Value |-> 1,
             Labels |-> { <<"uri", "sip:10.0.0.2">>, <<"flags", "D">>, <<"setid", "2">> }] >>

\* the fields of the k-th SET of the response
SetFields(k) == SetsOfResponse[k].Value.Items

\* the k-th SET carries an ID that is an integer other than 0
Identified(k) ==
  /\ HasField(SetFields(k), "ID")
  /\ \A j \in 1..Len(SetFields(k)) :
       SetFields(k)[j].Key = "ID" => SetFields(k)[j].Value.Type = TypeInt
  /\ FieldOf(SetFields(k), "ID").Int # 0

\* no ID of the response is of a type other than integer
IDsDecode ==
  \A k \in 1..Len(SetsOfResponse) : \A j \in 1..Len(SetFields(k)) :
    SetFields(k)[j].Key = "ID" => SetFields(k)[j].Value.Type = TypeInt

\* the method has failed on the missing set ID and has given no sample
FailedOnSetID ==
  /\ scraped.err = "missing set ID while parsing dispatcher.list"
  /\ scraped.metrics = << >>
  /\ stage = "done"
  /\ sunk.sent = << >>

PeerMethods == {"dlg.stats_active", "dmq.list_nodes"}

NoIntegerNamed(key) ==
  \A j \in 1..Len(Fields) : Fields[j].Key = key => Fields[j].Value.Type # TypeInt

\* no property named key of a DEST holds a text
NoTextNamed(props, key) ==
  /\ HasField(props, key)
  /\ \A j \in 1..Len(props) : props[j].Key = key => props[j].Value.Type # TypeString

\* C16: a value that cannot be coerced to the requested type (a non-integer
\* field of tm.stats, sl.stats or of a flat method; a non-text URI or FLAGS
\* of a DEST) does not make the method fail and that one field is omitted:
\* no sample, no default 0 and no empty label stands for it.
C16_UncoercibleOmitted ==
  /\ ScrapedFor({"tm.stats", "sl.stats", "core.uptime"}) =>
       /\ scraped.err = Nil
       /\ \A k \in 1..Len(Fields) :
            NoIntegerNamed(Fields[k].Key) =>
              IF probe.method # "core.uptime" /\ Fields[k].Key \in CodeKeys
              THEN \A c \in 1..Len(ValuesOf(scraped.metrics, "codes")) :
                     << "code", Fields[k].Key >> \notin ValuesOf(scraped.metrics, "codes")[c].Labels
              ELSE ~Found(scraped.metrics, Fields[k].Key)
  /\ (ScrapedFor({"dispatcher.list"}) /\ scraped.err = Nil
        /\ Len(ValuesOf(scraped.metrics, "target")) = Len(DestsOfResponse)) =>
       \A k \in 1..Len(DestsOfResponse) :
         /\ NoTextNamed(DestsOfResponse[k].props, "URI")
              => << "uri", "" >> \notin ValuesOf(scraped.metrics, "target")[k].Labels
         /\ NoTextNamed(DestsOfResponse[k].props, "FLAGS")
              => << "flags", "" >> \notin ValuesOf(scraped.metrics, "target")[k].Labels

\* every value the projection holds, under any name
AllValues == Concat([k \in 1..Len(scraped.metrics) |-> scraped.metrics[k].Values])

\* keys are in ascending byte order, each once
Ascending(keys) == \A a, b \in 1..Len(keys) : a < b => StrLess(keys[a], keys[b])

\* C17: LabelKeys gives the label keys of a sample in ascending order, each
\* once, and LabelValues the values in that same order (LabelValues[i] =
\* Labels[LabelKeys[i]]); without labels both are empty; the samples sent
\* carry their labels in that order.
C17_LabelsCanonical ==
  /\ \A k \in 1..Len(AllValues) :
       LET mv == AllValues[k]
       IN  /\ Len(LabelKeys(mv)) = Cardinality(mv.Labels)
           /\ Len(LabelValues(mv)) = Cardinality(mv.Labels)
           /\ Ascending(LabelKeys(mv))
           /\ \A n \in 1..Len(LabelKeys(mv)) :
                << LabelKeys(mv)[n], LabelValues(mv)[n] >> \in mv.Labels
  /\ \A k \in 1..Len(sunk.sent) :
       /\ Ascending(sunk.sent[k].keys)
       /\ Len(sunk.sent[k].vals) = Len(sunk.sent[k].keys)
       /\ sunk.sent[k].name = "kamailio_dispatcher_list_target" =>
            /\ sunk.sent[k].keys = << "flags", "setid", "uri" >>
            /\ \E t \in 1..Len(AllValues) :
                 AllValues[t].Labels
                   = { << sunk.sent[k].keys[n], sunk.sent[k].vals[n] >> : n \in 1..3 }
       /\ sunk.sent[k].name = "kamailio_tm_stats_current" =>
            (sunk.sent[k].keys = << >> /\ sunk.sent[k].vals = << >>)

\* a target was sent with its three labels in sorted order, after a sample
\* of another SET
C17_Witness ==
  /\ stage = "done"
  /\ Len(sunk.sent) = 3
  /\ sunk.sent[3].keys = << "flags", "setid", "uri" >>
  /\ sunk.sent[3].vals = << "D", "2", "sip:10.0.0.2" >>

\* what the catalog of the method lets through: entry by entry, in catalog
\* order, the values projected under the entry's name
ExpectedSent ==
  Concat([d \in 1..Len(metricsList(probe.method)) |->
            [v \in 1..Len(ValuesOf(scraped.metrics, metricsList(probe.method)[d].Name)) |->
               [def |-> metricsList(probe.method)[d],
                mv |-> ValuesOf(scraped.metrics, metricsList(probe.method)[d].Name)[v]]]])

\* the local names of the catalog of the method
CatalogNames ==
  { metricsList(probe.method)[d].Name : d \in 1..Len(metricsList(probe.method)) }

\* C18: a projected sample reaches the sink only if its local name is in the
\* catalog of its method; the samples are sent catalog entry by catalog
\* entry, in catalog order, not in response order; a projected name the
\* catalog does not list is dropped and fails nothing.
C18_CatalogFilter ==
  (stage = "done" /\ scraped.err = Nil) =>
    /\ sunk.err = Nil
    /\ Len(sunk.sent) = Len(ExpectedSent)
    /\ \A k \in 1..Len(sunk.sent) :
         /\ sunk.sent[k].name
              = "kamailio_" \o ReplaceAll(probe.method, ".", "_") \o "_"
                  \o ExpectedSent[k].def.Name
                  \o (IF ExpectedSent[k].def.Kind = "counter" THEN "_total" ELSE "")
         /\ sunk.sent[k].value = ExpectedSent[k].mv.Value
         /\ { << sunk.sent[k].keys[n], sunk.sent[k].vals[n] >> :
                n \in 1..Len(sunk.sent[k].keys) } = ExpectedSent[k].mv.Labels
    /\ (NamesOf(scraped.metrics) \cap CatalogNames = {}) => sunk.sent = << >>

\* tm.stats answered {waiting, current}: current was sent before waiting
C18_Witness ==
  /\ stage = "done"
  /\ probe.method = "tm.stats"
  /\ Len(Fields) = 2
  /\ Fields[1].Key = "waiting"
  /\ Fields[2].Key = "current"
  /\ Len(sunk.sent) = 2
  /\ sunk.sent[1].name = "kamailio_tm_stats_current"
  /\ sunk.sent[2].name = "kamailio_tm_stats_waiting"

\* the k-th SET carries an ID field and its ID is the integer 0
IDZero(k) ==
  /\ HasField(SetFields(k), "ID")
  /\ FieldOf(SetFields(k), "ID").Type = TypeInt
  /\ FieldOf(SetFields(k), "ID").Int = 0

\* C19: in dispatcher.list a SET whose ID is present with the integer value
\* 0 is treated as a SET without ID: the whole method fails with the
\* missing-set-ID error, also when that SET has no DEST at all (the ID is
\* checked before the targets are counted).
C19_SetIDZero ==
  (ScrapedFor({"dispatcher.list"}) /\ IDsDecode
     /\ \E k \in 1..Len(SetsOfResponse) : IDZero(k))
    => FailedOnSetID

\* the only SET of the response has the ID 0 and no DEST, and the method
\* has failed
C19_Witness ==
  /\ ScrapedFor({"dispatcher.list"})
  /\ Len(SetsOfResponse) = 1
  /\ IDZero(1)
  /\ DestsOfSet(SetsOfResponse[1]) = << >>
  /\ scraped.err = "missing set ID while parsing dispatcher.list"

====
